---- MODULE Spec2Model ----
(***************************************************************************)
(* A model of libjulia/optimiser/FullInliner.cpp: the driver FullInliner,  *)
(* the call-site rewriter InlineModifier, BodyCopier and NameDispenser.    *)
(* The AST is a tree of records; a node is addressed by its path from the  *)
(* root block, and every in-place mutation of the C++ code is a write at a *)
(* path, so that a function body cloned while it is being rewritten is     *)
(* seen exactly as far as the rewriting has got.                           *)
(***************************************************************************)
EXTENDS Integers, Sequences, FiniteSets, TLC

VARIABLES m_ast, m_functions, m_functionsToVisit, m_usedNames, m_currentFunction, m_statementsToPrefix,
          frames, pc, pos, runNo, input, seed, hist

vars == <<m_ast, m_functions, m_functionsToVisit, m_usedNames, m_currentFunction, m_statementsToPrefix,
          frames, pc, pos, runNo, input, seed, hist>>

RECURSIVE Get(_, _), Set(_, _, _), to_string(_), NewNameLoop(_, _, _, _), Paths(_)
RECURSIVE CollectStatement(_), CollectExpression(_), SeqUnion(_, _)

----------------------------------------------------------------------------
(* The AST of libsolidity/inlineasm/AsmData.h, as far as the pass reads it. *)

Literal(v) == [type |-> "Literal", value |-> v]

Identifier(n) == [type |-> "Identifier", name |-> n]

FunctionCall(fn, args) == [type |-> "FunctionCall", functionName |-> Identifier(fn), arguments |-> args]

FunctionalInstruction(ins, args) == [type |-> "FunctionalInstruction", instruction |-> ins, arguments |-> args]

TypedName(n, t) == [name |-> n, type |-> t]

\* value is <<>> (no initializer) or <<e>>, as the shared_ptr<Expression> is null or not
VariableDeclaration(variables, value) == [type |-> "VariableDeclaration", variables |-> variables, value |-> value]

Assignment(n, e) == [type |-> "Assignment", variableName |-> Identifier(n), value |-> e]

ForLoop(pre, condition, post, body) == [type |-> "ForLoop", pre |-> pre, condition |-> condition, post |-> post, body |-> body]

Block(statements) == [type |-> "Block", statements |-> statements]

FunctionDefinition(name, parameters, returnVariables, body) == [type |-> "FunctionDefinition", name |-> name, parameters |-> parameters, returnVariables |-> returnVariables, body |-> body]

\* A path is a sequence of steps <<field, index>>; index 0 for a field that is one node.
Step(f, i) == <<<<f, i>>>>

Get(node, path) ==
    IF path = <<>> THEN node
    ELSE LET f == path[1][1]
             i == path[1][2]
         IN Get(IF i = 0 THEN node[f] ELSE node[f][i], Tail(path))

Set(node, path, v) ==
    IF path = <<>> THEN v
    ELSE LET f == path[1][1]
             i == path[1][2]
         IN IF i = 0
            THEN [node EXCEPT ![f] = Set(node[f], Tail(path), v)]
            ELSE [node EXCEPT ![f] = [@ EXCEPT ![i] = Set(node[f][i], Tail(path), v)]]

\* vector::insert at begin() + i + 1: the new elements go behind the element at i
InsertBehind(seq, k, new) == SubSeq(seq, 1, k) \o new \o SubSeq(seq, k + 1, Len(seq))

\* vector::insert(begin() + i, ...) with the 0-based i of the code being k - 1
InsertBefore(seq, k, new) == SubSeq(seq, 1, k - 1) \o new \o SubSeq(seq, k, Len(seq))

\* the steps from a node to its children
ChildSteps(node) ==
    CASE node.type = "Block" -> {Step("statements", i) : i \in 1..Len(node.statements)}
      [] node.type = "FunctionDefinition" -> {Step("body", 0)}
      [] node.type = "ForLoop" -> {Step("pre", 0), Step("condition", 0), Step("post", 0), Step("body", 0)}
      [] node.type = "VariableDeclaration" -> {Step("value", i) : i \in 1..Len(node.value)}
      [] node.type = "Assignment" -> {Step("value", 0)}
      [] node.type \in {"FunctionCall", "FunctionalInstruction"} ->
            {Step("arguments", i) : i \in 1..Len(node.arguments)}
      [] OTHER -> {}

\* the paths of all nodes of the tree under node, itself included
Paths(node) ==
    {<<>>} \cup UNION {{st \o q : q \in Paths(Get(node, st))} : st \in ChildSteps(node)}

----------------------------------------------------------------------------
(* NameDispenser *)

Digits == <<"0", "1", "2", "3", "4", "5", "6", "7", "8", "9">>

\* std::to_string of a size_t
to_string(n) == IF n < 10 THEN Digits[n + 1] ELSE to_string(n \div 10) \o Digits[(n % 10) + 1]

\* the while loop of NameDispenser::newName
NewNameLoop(used, _prefix, name, suffix) ==
    IF name = "" \/ name \in used
    THEN NewNameLoop(used, _prefix, _prefix \o "_" \o to_string(suffix + 1), suffix + 1)
    ELSE name

\* newName without the test of line 238 against the used names
NewNameUnchecked(used, _prefix) == IF _prefix = "" THEN "_1" ELSE _prefix

\* the name NameDispenser::newName returns
NewName(used, _prefix) == NewNameLoop(used, _prefix, _prefix, 0)

\* m_usedNames.insert(name); return name: the name is returned in ret
Dispense(s, name) ==
    [s EXCEPT !.m_usedNames = @ \cup {name}, !.dispensed = Append(@, name), !.ret = name]

\* NameDispenser::newName on a record s that carries the dispenser
newName(s, _prefix) == Dispense(s, NewName(s.m_usedNames, _prefix))

----------------------------------------------------------------------------
(* NameCollector: every name of the module *)

SeqUnion(seq, i) == IF i > Len(seq) THEN {} ELSE seq[i] \cup SeqUnion(seq, i + 1)

CollectExpression(e) ==
    CASE e.type = "Identifier" -> {e.name}
      [] e.type = "FunctionCall" ->
            {e.functionName.name} \cup SeqUnion([k \in 1..Len(e.arguments) |-> CollectExpression(e.arguments[k])], 1)
      [] e.type = "FunctionalInstruction" ->
            SeqUnion([k \in 1..Len(e.arguments) |-> CollectExpression(e.arguments[k])], 1)
      [] OTHER -> {}

CollectStatement(st) ==
    CASE st.type = "VariableDeclaration" ->
            {st.variables[k].name : k \in 1..Len(st.variables)}
            \cup (IF st.value = <<>> THEN {} ELSE CollectExpression(st.value[1]))
      [] st.type = "Assignment" -> {st.variableName.name} \cup CollectExpression(st.value)
      [] st.type = "ForLoop" ->
            CollectStatement(st.pre) \cup CollectExpression(st.condition)
            \cup CollectStatement(st.post) \cup CollectStatement(st.body)
      [] st.type = "Block" ->
            SeqUnion([k \in 1..Len(st.statements) |-> CollectStatement(st.statements[k])], 1)
      [] st.type = "FunctionDefinition" ->
            {st.name} \cup {st.parameters[k].name : k \in 1..Len(st.parameters)}
            \cup {st.returnVariables[k].name : k \in 1..Len(st.returnVariables)}
            \cup CollectStatement(st.body)
      [] OTHER -> {}

NameCollector(ast) == CollectStatement(ast)

----------------------------------------------------------------------------
(* ASTCopier and BodyCopier.  The copier walks the body in the order pre,  *)
(* condition, post, body of a loop and first to last of a vector; at each  *)
(* VariableDeclaration it first dispenses a new name for every variable of *)
(* the declaration.  A copy is described by the record c: the body, the    *)
(* declared variables in the order the copier meets them (decls), the      *)
(* names dispensed for them (names), and _variableReplacements.            *)

\* the place of a field in the order the copier takes the children of a node
Rank(f) == CASE f = "pre" -> 1 [] f = "condition" -> 2 [] f = "post" -> 3 [] OTHER -> 4

\* the copier takes the child at step a of a node before the child at step b
Before(a, b) == Rank(a[1]) < Rank(b[1]) \/ (a[1] = b[1] /\ a[2] < b[2])

\* the copier comes to the node at q before it comes to the node at p, or q = p: q leads
\* to p, or where the paths part q takes the earlier child
Precedes(q, p) ==
    \/ Len(q) <= Len(p) /\ \A j \in 1..Len(q) : q[j] = p[j]
    \/ \E k \in 1..Len(q) :
          /\ k <= Len(p)
          /\ \A j \in 1..(k - 1) : q[j] = p[j]
          /\ Before(q[k], p[k])

\* the variables declared in the body: the path of the declaration, the index in it
Declarations(body) ==
    UNION {{[p |-> p, k |-> k, name |-> Get(body, p).variables[k].name] :
               k \in 1..Len(Get(body, p).variables)} :
           p \in {q \in Paths(body) : Get(body, q).type = "VariableDeclaration"}}

\* the copier meets declaration d before declaration e, or d = e
Earlier(d, e) == IF d.p = e.p THEN d.k <= e.k ELSE Precedes(d.p, e.p)

\* each declaration with its number in the order the copier meets them
Numbered(ds) == {[d |-> e, n |-> Cardinality({d \in ds : Earlier(d, e)})] : e \in ds}

\* the declarations in the order the copier meets them
Ordered(numbered) == [n \in 1..Cardinality(numbered) |-> (CHOOSE e \in numbered : e.n = n).d]

\* the loop of BodyCopier::operator()(VariableDeclaration const&), over all declarations
\* of the body: the names dispensed for the first n of them
RECURSIVE DispensedFor(_, _, _, _)
DispensedFor(used, _varNamePrefix, decls, n) ==
    IF n = 0 THEN <<>>
    ELSE CHOOSE names \in {Append(before, NewName(used \cup {before[j] : j \in 1..Len(before)},
                                                  _varNamePrefix \o decls[n].name)) :
                              before \in {DispensedFor(used, _varNamePrefix, decls, n - 1)}} : TRUE

\* the largest of a set of numbers
Max(S) == CHOOSE n \in S : \A j \in S : j <= n

\* m_variableReplacements when the copier is at the node at p: the names dispensed for
\* the declarations met so far, the later over the earlier, over _variableReplacements
ReplacementsAt(c, p) ==
    CHOOSE m \in {[name \in DOMAIN c._variableReplacements \cup {c.decls[n].name : n \in met} |->
                      IF \E n \in met : c.decls[n].name = name
                      THEN c.names[Max({n \in met : c.decls[n].name = name})]
                      ELSE c._variableReplacements[name]] :
                  met \in {{n \in 1..Len(c.decls) : Precedes(c.decls[n].p, p)}}} : TRUE

\* BodyCopier::translateIdentifier
translateIdentifier(m_variableReplacements, _name) ==
    IF _name \in DOMAIN m_variableReplacements THEN m_variableReplacements[_name] ELSE _name

\* ASTCopier::operator() and translate, on the node at p of the body, m_variableReplacements
\* being what it is when the copier is there; a FunctionDefinition fails BodyCopier's
\* assertion, see Asserts
RECURSIVE Copy(_, _)
CopyNode(c, p, node, m_variableReplacements) ==
    CASE node.type = "Identifier" -> Identifier(translateIdentifier(m_variableReplacements, node.name))
      [] node.type = "FunctionCall" ->
            FunctionCall(translateIdentifier(m_variableReplacements, node.functionName.name),
                         [k \in 1..Len(node.arguments) |-> Copy(c, p \o Step("arguments", k))])
      [] node.type = "FunctionalInstruction" ->
            FunctionalInstruction(node.instruction,
                                  [k \in 1..Len(node.arguments) |-> Copy(c, p \o Step("arguments", k))])
      [] node.type = "VariableDeclaration" ->
            VariableDeclaration(
                [k \in 1..Len(node.variables) |->
                    TypedName(translateIdentifier(m_variableReplacements, node.variables[k].name),
                              node.variables[k].type)],
                [k \in 1..Len(node.value) |-> Copy(c, p \o Step("value", k))])
      [] node.type = "Assignment" ->
            Assignment(translateIdentifier(m_variableReplacements, node.variableName.name),
                       Copy(c, p \o Step("value", 0)))
      [] node.type = "ForLoop" ->
            ForLoop(Copy(c, p \o Step("pre", 0)), Copy(c, p \o Step("condition", 0)),
                    Copy(c, p \o Step("post", 0)), Copy(c, p \o Step("body", 0)))
      [] node.type = "Block" ->
            Block([k \in 1..Len(node.statements) |-> Copy(c, p \o Step("statements", k))])
      [] OTHER -> node

\* the copy of the node at p of the body
Copy(c, p) ==
    CHOOSE copy \in {CopyNode(c, q, node, m) :
                        q \in {p}, node \in {Get(c.body, p)}, m \in {ReplacementsAt(c, p)}} : TRUE

\* BodyCopier::operator()(FunctionDefinition const&) is reached
Asserts(body) == \E p \in Paths(body) : Get(body, p).type = "FunctionDefinition"

\* the copy is made: the dispenser has the names dispensed, the copy is in ret
Copied(s, c) ==
    [s EXCEPT !.m_usedNames = @ \cup {c.names[n] : n \in 1..Len(c.names)},
              !.dispensed = @ \o c.names,
              !.failed = Asserts(c.body),
              !.ret = IF Asserts(c.body) THEN <<>> ELSE Copy(c, <<>>)]

\* BodyCopier(m_nameDispenser, _varNamePrefix, _variableReplacements)(body), on the pass state s
BodyCopier(s, _varNamePrefix, _variableReplacements, body) ==
    CHOOSE t \in {Copied(s, c) :
                     c \in {[body |-> body, decls |-> decls, _variableReplacements |-> _variableReplacements,
                             names |-> DispensedFor(s.m_usedNames, _varNamePrefix, decls, Len(decls))] :
                            decls \in {Ordered(numbered) :
                                         numbered \in {Numbered(ds) : ds \in {Declarations(body)}}}}} : TRUE

----------------------------------------------------------------------------
(* InlineModifier and FullInliner::handleFunction, as a machine.  The pass  *)
(* state s carries the module (ast), the driver's m_functions and           *)
(* m_functionsToVisit, the dispenser, the fields of the InlineModifier at   *)
(* work (m_currentFunction, m_statementsToPrefix), the flag failed (an      *)
(* exception is on its way out of run()), and the record of what happened   *)
(* (stack, runs, the logs).  The C++ call stack is s.frames, its top last:  *)
(* a frame names the place in the code where the call it stands for goes on *)
(* (at) and holds the locals of that call.  One step runs the code of the   *)
(* top frame up to its next call or its return.                             *)

\* the top frame returns or goes on: it is replaced by the frames given, the next to run last
Continue(s, next) == [s EXCEPT !.frames = SubSeq(@, 1, Len(@) - 1) \o next]

\* a call of visit() on the node at p
VisitFrame(p) == [at |-> "visit", p |-> p]

\* a call of operator()(Block&) on the block at p, at the head of its loop with
\* the code's i + 1; visits records, per statement visited, the buffer and the statement
\* after its visit
BlockFrame(s, p) ==
    [at |-> "Block", p |-> p, i |-> 1, visits |-> <<>>, before |-> Get(s.ast, p).statements]

\* visitArguments called with _moveToFront true whatever the caller passes
ArgumentsFrameMovingAll(p, _nameHints, _types, _moveToFront) ==
    [at |-> "visitArguments", p |-> p, _nameHints |-> _nameHints, _types |-> _types,
     _moveToFront |-> TRUE, prefix |-> <<>>, i |-> 1, saved |-> <<>>]

\* a call of visitArguments on the arguments of the node at p, at the head of its loop
ArgumentsFrame(p, _nameHints, _types, _moveToFront) ==
    [at |-> "visitArguments", p |-> p, _nameHints |-> _nameHints, _types |-> _types,
     _moveToFront |-> _moveToFront, prefix |-> <<>>, i |-> 1, saved |-> <<>>]

\* operator()(ForLoop&) visiting the condition as well
OpForLoopWithCondition(s, p) ==
    Continue(s, <<BlockFrame(s, p \o Step("body", 0)), BlockFrame(s, p \o Step("post", 0)),
                  VisitFrame(p \o Step("condition", 0)), BlockFrame(s, p \o Step("pre", 0))>>)

\* InlineModifier::operator()(ForLoop&): pre, post, body
OpForLoop(s, p) ==
    Continue(s, <<BlockFrame(s, p \o Step("body", 0)), BlockFrame(s, p \o Step("post", 0)),
                  BlockFrame(s, p \o Step("pre", 0))>>)

\* _block.statements.insert(begin() + i, prefix), m_statementsToPrefix.clear()
Splice(s, p, i) ==
    [s EXCEPT !.ast = Set(@, p \o Step("statements", 0),
                          InsertBefore(Get(s.ast, p).statements, i, s.m_statementsToPrefix)),
              !.m_statementsToPrefix = <<>>]

\* InlineModifier::operator()(Block&), the loop body after visit(_block.statements.at(i))
Visited(s, fr) ==
    Continue(IF Len(s.m_statementsToPrefix) > 0 THEN Splice(s, fr.p, fr.i) ELSE s,
             <<[fr EXCEPT !.at = "Block", !.i = fr.i + Len(s.m_statementsToPrefix) + 1,
                          !.visits = Append(@, [i |-> fr.i, prefix |-> s.m_statementsToPrefix,
                                                statement |-> Get(s.ast, fr.p \o Step("statements", fr.i))])]>>)

\* InlineModifier::operator()(Block&), the head of the loop: the visit of the next
\* statement, or the return, which is recorded
OpBlock(s, fr) ==
    IF fr.i > Len(Get(s.ast, fr.p).statements)
    THEN Continue([s EXCEPT !.blockLog = <<[path |-> fr.p, before |-> fr.before, visits |-> fr.visits,
                                           after |-> Get(s.ast, fr.p).statements, i |-> fr.i,
                                           buffer |-> s.m_statementsToPrefix]>>],
                  <<>>)
    ELSE Continue(s, <<[fr EXCEPT !.at = "Visited"], VisitFrame(fr.p \o Step("statements", fr.i))>>)

\* the else-if branch with the declaration put at the end of the prefix
MovedToBack(s, fr, var) ==
    Continue([s EXCEPT !.ast = Set(@, fr.p \o Step("arguments", fr.i), Identifier(var)),
                       !.m_usedNames = @ \cup {var}, !.dispensed = Append(@, var),
                       !.m_statementsToPrefix = fr.saved],
             <<[fr EXCEPT !.at = "visitArguments", !.i = @ + 1,
                          !.prefix = @ \o <<VariableDeclaration(
                                         <<TypedName(var, IF fr.i <= Len(fr._types) THEN fr._types[fr.i] ELSE "")>>,
                                         <<Get(s.ast, fr.p \o Step("arguments", fr.i))>>)>>]>>)

\* visitArguments, else-if branch: the argument moves into a declaration of the new variable
Moved(s, fr, var) ==
    Continue([s EXCEPT !.ast = Set(@, fr.p \o Step("arguments", fr.i), Identifier(var)),
                       !.m_usedNames = @ \cup {var}, !.dispensed = Append(@, var),
                       !.m_statementsToPrefix = fr.saved],
             <<[fr EXCEPT !.at = "visitArguments", !.i = @ + 1,
                          !.prefix = <<VariableDeclaration(
                                         <<TypedName(var, IF fr.i <= Len(fr._types) THEN fr._types[fr.i] ELSE "")>>,
                                         <<Get(s.ast, fr.p \o Step("arguments", fr.i))>>)>> \o @]>>)

\* visitArguments, the loop body after visitRecursively(arg): the buffer holds the
\* prefix the visit made, and gets back what visitRecursively saved
ArgVisited(s, fr) ==
    IF s.m_statementsToPrefix # <<>>
    THEN Continue([s EXCEPT !.m_statementsToPrefix = fr.saved],
                  <<[fr EXCEPT !.at = "visitArguments", !.i = @ + 1, !._moveToFront = TRUE,
                               !.prefix = s.m_statementsToPrefix \o @]>>)
    ELSE IF fr._moveToFront
    THEN Moved(s, fr, NewName(s.m_usedNames, IF fr.i <= Len(fr._nameHints) THEN fr._nameHints[fr.i] ELSE ""))
    ELSE Continue([s EXCEPT !.m_statementsToPrefix = fr.saved], <<[fr EXCEPT !.at = "visitArguments", !.i = @ + 1]>>)

\* visitArguments, the head of the loop: visitRecursively(arg) swaps the buffer for an
\* empty one and visits the argument; after the loop the prefix goes to the buffer
VisitArguments(s, fr) ==
    IF fr.i > Len(Get(s.ast, fr.p).arguments)
    THEN Continue([s EXCEPT !.m_statementsToPrefix = @ \o fr.prefix], <<>>)
    ELSE Continue([s EXCEPT !.m_statementsToPrefix = <<>>],
                  <<[fr EXCEPT !.at = "ArgVisited", !.saved = s.m_statementsToPrefix],
                    VisitFrame(fr.p \o Step("arguments", fr.i))>>)

\* InlineModifier::operator()(FunctionalInstruction&)
OpFunctionalInstruction(s, p) == Continue(s, <<ArgumentsFrame(p, <<>>, <<>>, FALSE)>>)

\* the eligibility test without the comparison of line 128
DoInlineSelf(functionName, currentFunction, fun) == Len(fun.returnVariables) = 1

\* the eligibility test of InlineModifier::visit(Expression&)
DoInline(functionName, currentFunction, fun) ==
    functionName # currentFunction /\ Len(fun.returnVariables) = 1

\* variableReplacements of visit(Expression&): parameters to arguments, the return variable to result
VariableReplacements(fun, arguments, result) ==
    (fun.returnVariables[1].name :> result)
    @@ [name \in {fun.parameters[i].name : i \in 1..Len(arguments)} |->
            arguments[CHOOSE i \in 1..Len(arguments) :
                          /\ fun.parameters[i].name = name
                          /\ \A j \in 1..Len(arguments) : fun.parameters[j].name = name => j <= i].name]

\* visit(Expression&), the statements pushed and the call replaced; s.ret is the copy of
\* the body, and s.dispensed ends with the names the copier dispensed after result
Replaced(s, p, fun, funCall, result, before) ==
    IF s.failed THEN s
    ELSE [s EXCEPT !.m_statementsToPrefix =
                        @ \o <<VariableDeclaration(<<TypedName(result, fun.returnVariables[1].type)>>, <<>>), s.ret>>,
                   !.ast = Set(@, p, Identifier(result)),
                   !.inlineLog = <<[path |-> p, callee |-> fun.name, caller |-> s.m_currentFunction,
                        returns |-> Len(fun.returnVariables),
                        pending |-> s.m_functions[fun.name] \in s.m_functionsToVisit,
                        active |-> \E j \in 1..Len(s.stack) : s.stack[j] = s.m_functions[fun.name],
                        runs |-> s.runs[s.m_functions[fun.name]],
                        arguments |-> funCall.arguments,
                        result |-> result,
                        synthesized |-> SubSeq(s.m_statementsToPrefix, before + 1, Len(s.m_statementsToPrefix))
                                        \o <<VariableDeclaration(<<TypedName(result, fun.returnVariables[1].type)>>, <<>>), s.ret>>,
                        fun |-> fun,
                        locals |-> {s.dispensed[j] : j \in {i \in 1..Len(s.dispensed) :
                                        \E r \in 1..(i - 1) : s.dispensed[r] = result}},
                        buffer |-> s.m_statementsToPrefix
                                   \o <<VariableDeclaration(<<TypedName(result, fun.returnVariables[1].type)>>, <<>>), s.ret>>,
                        after |-> Get(Set(s.ast, p, Identifier(result)), p)]>>]

\* visit(Expression&) from the new result name, s.ret, on
Named(s, p, fun, funCall, before) ==
    CHOOSE t \in {Replaced(copied, p, fun, funCall, s.ret, before) :
                     copied \in {BodyCopier(s, fun.name \o "_",
                                            VariableReplacements(fun, funCall.arguments, s.ret), fun.body)}} : TRUE

\* visit(Expression&) from "if (!doInline) return" on: boost::get<Identifier> throws on
\* an argument that is no Identifier
InlineCall(s, p, fun, before) ==
    IF \E i \in 1..Len(Get(s.ast, p).arguments) : Get(s.ast, p).arguments[i].type # "Identifier"
    THEN [s EXCEPT !.failed = TRUE,
                   !.badGet = <<[path |-> p, callee |-> fun.name, arguments |-> Get(s.ast, p).arguments]>>]
    ELSE CHOOSE t \in {Named(named, p, fun, funCall, before) :
                          named \in {newName(s, fun.name \o "_" \o fun.returnVariables[1].name)},
                          funCall \in {Get(s.ast, p)}} : TRUE

\* m_driver.function(name)
Function(s, name) == s.ast.statements[s.m_functions[name]]

\* the visit of a call is recorded when visitArguments has returned
CallVisited(s, fr) ==
    [s EXCEPT !.callLog = <<[path |-> fr.p, callee |-> fr.name, caller |-> s.m_currentFunction,
                                     doInline |-> fr.doInline, before |-> fr.funCall, after |-> Get(s.ast, fr.p),
                                     hoisted |-> SubSeq(s.m_statementsToPrefix, fr.before + 1,
                                                        Len(s.m_statementsToPrefix)),
                                     handle |-> fr.handle]>>]

\* visit(Expression&) after visitArguments
ArgumentsVisited(s, fr) ==
    IF ~fr.doInline THEN Continue(CallVisited(s, fr), <<>>)
    ELSE CHOOSE t \in {Continue(InlineCall(visited, fr.p, fun, fr.before), <<>>) :
                          visited \in {CallVisited(s, fr)}, fun \in {Function(s, fr.name)}} : TRUE

\* visit(Expression&) after m_driver.handleFunction(fun): doInline, and the call of visitArguments
Handled(s, fr) ==
    Continue(s, <<[at |-> "ArgumentsVisited", p |-> fr.p, name |-> fr.name, funCall |-> fr.funCall,
                   before |-> fr.before,
                   doInline |-> DoInline(fr.name, s.m_currentFunction, Function(s, fr.name)),
                   handle |-> [pending |-> fr.pending]],
                  ArgumentsFrame(fr.p,
                                 [i \in 1..Len(Function(s, fr.name).parameters) |->
                                     fr.name \o "_" \o Function(s, fr.name).parameters[i].name],
                                 [i \in 1..Len(Function(s, fr.name).parameters) |->
                                     Function(s, fr.name).parameters[i].type],
                                 DoInline(fr.name, s.m_currentFunction, Function(s, fr.name)))>>)

\* visit(Expression&) without the call of line 125
VisitFunctionCallUnhandled(s, p, funCall) ==
    Continue(s, <<[at |-> "Handled", p |-> p, name |-> funCall.functionName.name, funCall |-> funCall,
                   before |-> Len(s.m_statementsToPrefix),
                   pending |-> s.m_functions[funCall.functionName.name] \in s.m_functionsToVisit]>>)

\* InlineModifier::visit(Expression&) for a FunctionCall: m_driver.handleFunction(fun) first
VisitFunctionCall(s, p, funCall) ==
    Continue(s, <<[at |-> "Handled", p |-> p, name |-> funCall.functionName.name, funCall |-> funCall,
                   before |-> Len(s.m_statementsToPrefix),
                   pending |-> s.m_functions[funCall.functionName.name] \in s.m_functionsToVisit],
                  [at |-> "handleFunction", k |-> s.m_functions[funCall.functionName.name]]>>)

\* ASTModifier::visit(Statement&) and ASTModifier::visit(Expression&): the dispatch on
\* the type of the node to the operator() of the modifier; the operator() of a
\* VariableDeclaration and of an Assignment, which InlineModifier leaves as they are,
\* visit the value
ASTModifierVisit(s, p, node) ==
    CASE node.type = "VariableDeclaration" ->
            Continue(s, IF node.value = <<>> THEN <<>> ELSE <<VisitFrame(p \o Step("value", 1))>>)
      [] node.type = "Assignment" -> Continue(s, <<VisitFrame(p \o Step("value", 0))>>)
      [] node.type = "ForLoop" -> OpForLoop(s, p)
      [] node.type = "Block" -> Continue(s, <<BlockFrame(s, p)>>)
      [] node.type = "FunctionalInstruction" -> OpFunctionalInstruction(s, p)
      [] OTHER -> Continue(s, <<>>)

\* InlineModifier::visit(Expression&): what is no FunctionCall goes to ASTModifier::visit
Visit(s, p, node) ==
    IF node.type # "FunctionCall" THEN ASTModifierVisit(s, p, node)
    ELSE VisitFunctionCall(s, p, node)

----------------------------------------------------------------------------
(* FullInliner *)

\* handleFunction returns: the InlineModifier it made is gone, the caller's is at work again
Returned(s, fr) ==
    Continue([s EXCEPT !.m_statementsToPrefix = fr.m_statementsToPrefix,
                       !.m_currentFunction = fr.m_currentFunction,
                       !.stack = SubSeq(@, 1, Len(@) - 1)],
             <<>>)

\* handleFunction without line 76: the function stays pending
HandleFunctionKeepsPending(s, fr) ==
    IF fr.k \notin s.m_functionsToVisit THEN Continue(s, <<>>)
    ELSE Continue([s EXCEPT !.m_statementsToPrefix = <<>>,
                            !.m_currentFunction = s.ast.statements[fr.k].name, !.stack = Append(@, fr.k),
                            !.runs = [@ EXCEPT ![fr.k] = @ + 1]],
                  <<[at |-> "Returned", m_currentFunction |-> s.m_currentFunction,
                     m_statementsToPrefix |-> s.m_statementsToPrefix],
                    BlockFrame(s, Step("statements", fr.k) \o Step("body", 0))>>)

\* FullInliner::handleFunction, for the function at index k of the module
HandleFunction(s, fr) ==
    IF fr.k \notin s.m_functionsToVisit THEN Continue(s, <<>>)
    ELSE Continue([s EXCEPT !.m_functionsToVisit = @ \ {fr.k}, !.m_statementsToPrefix = <<>>,
                            !.m_currentFunction = s.ast.statements[fr.k].name, !.stack = Append(@, fr.k),
                            !.runs = [@ EXCEPT ![fr.k] = @ + 1]],
                  <<[at |-> "Returned", m_currentFunction |-> s.m_currentFunction,
                     m_statementsToPrefix |-> s.m_statementsToPrefix],
                    BlockFrame(s, Step("statements", fr.k) \o Step("body", 0))>>)

----------------------------------------------------------------------------
(* The modules the pass is run on: one top-level block and the functions   *)
(* f(x) -> y, g(x) -> y and h(a, b, c) -> r [, r2], their bodies drawn     *)
(* from the shapes below.                                                  *)

MaxFBody == 7

MaxGBody == 4

MaxHBody == 2

MaxTop == 6

U == "u256"

Names(seq) == [i \in 1..Len(seq) |-> TypedName(seq[i], U)]

Let(n, e) == VariableDeclaration(Names(<<n>>), <<e>>)

Call1(fn, e) == FunctionCall(fn, <<e>>)

Add(a, b) == FunctionalInstruction("add", <<a, b>>)

FBody(i) ==
    CASE i = 1 -> <<Assignment("y", Identifier("x"))>>
      [] i = 2 -> <<Assignment("y", Call1("f", Identifier("x")))>>
      [] i = 3 -> <<Assignment("y", Call1("g", Identifier("x")))>>
      [] i = 4 -> <<Assignment("y", Add(FunctionCall("h", <<Literal("1"), Literal("2"), Literal("3")>>),
                                        Call1("g", Literal("2"))))>>
      [] i = 5 -> <<Let("t", Literal("1")),
                    Assignment("y", Call1("g", Add(Call1("g", Identifier("t")), Literal("1"))))>>
      [] i = 6 -> <<ForLoop(Block(<<Let("i", Call1("g", Identifier("x")))>>),
                            Call1("g", Identifier("i")),
                            Block(<<Assignment("i", Call1("g", Identifier("i")))>>),
                            Block(<<Assignment("y", Call1("g", Identifier("i")))>>))>>
      [] i = 7 -> <<Assignment("y", FunctionCall("h", <<Identifier("x"), Call1("g", Identifier("x")), Identifier("x")>>))>>
      [] OTHER -> <<Assignment("y", Call1("f", Call1("g", Identifier("x"))))>>

GBody(i) ==
    CASE i = 1 -> <<Assignment("y", Identifier("x"))>>
      [] i = 2 -> <<Assignment("y", Call1("f", Identifier("x")))>>
      [] i = 3 -> <<Assignment("y", Call1("g", Call1("g", Identifier("x"))))>>
      [] i = 4 -> <<Let("t", Call1("f", Identifier("x"))), Assignment("y", Call1("f", Identifier("t")))>>
      [] OTHER -> <<Let("t", Add(Identifier("x"), Call1("f", Identifier("x")))), Assignment("y", Identifier("t"))>>

HExpr(i) ==
    CASE i = 1 -> Identifier("a")
      [] i = 2 -> FunctionCall("h", <<Identifier("a"), Call1("f", Identifier("b")), Identifier("c")>>)
      [] OTHER -> FunctionCall("h", <<Identifier("a"), Identifier("b"), Call1("g", Identifier("c"))>>)

HBody(i, nret) ==
    CASE nret = 0 -> <<Let("t", HExpr(i))>>
      [] nret = 1 -> <<Assignment("r", HExpr(i))>>
      [] OTHER -> <<Assignment("r", HExpr(i)), Assignment("r2", Identifier("b"))>>

HReturns(nret) == SubSeq(<<"r", "r2", "r3">>, 1, nret)

TopLevel(i) ==
    CASE i = 1 -> <<Let("r", Call1("f", Literal("1")))>>
      [] i = 2 -> <<Let("r", Call1("g", Call1("g", Literal("1"))))>>
      [] i = 3 -> <<Let("r", FunctionCall("h", <<Literal("1"), Call1("g", Literal("2")), Literal("3")>>))>>
      [] i = 4 -> <<ForLoop(Block(<<Let("i", Call1("f", Literal("1")))>>),
                            Call1("g", Identifier("i")),
                            Block(<<Assignment("i", Call1("f", Identifier("i")))>>),
                            Block(<<Let("k", Call1("g", Identifier("i")))>>))>>
      [] i = 5 -> <<Let("r", FunctionCall("h", <<Literal("1"), Add(Call1("g", Literal("2")), Literal("4")), Literal("3")>>))>>
      [] i = 6 -> <<Let("u", Literal("1")), Let("r", Call1("f", Identifier("u"))), Let("w", Call1("g", Identifier("r")))>>
      [] OTHER -> <<Let("r", Add(Call1("f", Literal("1")), Call1("g", Literal("2"))))>>

Module(fb, gb, hb, nret, top) ==
    Block(<<Block(TopLevel(top)),
            FunctionDefinition("f", Names(<<"x">>), Names(<<"y">>), Block(FBody(fb))),
            FunctionDefinition("g", Names(<<"x">>), Names(<<"y">>), Block(GBody(gb))),
            FunctionDefinition("h", Names(<<"a", "b", "c">>), Names(HReturns(nret)), Block(HBody(hb, nret)))>>)

Modules ==
    {Module(fb, gb, 1, 1, top) : fb \in 1..MaxFBody, gb \in 1..MaxGBody, top \in {1, 2, 4, 6}}
    \cup {Module(fb, gb, hb, nret, top) : fb \in {1, 3, 7}, gb \in {1, 2}, hb \in 1..MaxHBody,
                                          nret \in 0..2, top \in {t \in 1..MaxTop : t \notin {1, 2, 4, 6}}}

----------------------------------------------------------------------------
(* FullInliner::FullInliner and FullInliner::run.  An action is one step:   *)
(* run() going on while no call it made is open (frames is empty), or the   *)
(* call on top of the stack going on.                                       *)

\* the state of the pass, from the variables
PassState ==
    [ast |-> m_ast, m_functions |-> m_functions, m_functionsToVisit |-> m_functionsToVisit,
     m_usedNames |-> m_usedNames, m_currentFunction |-> m_currentFunction,
     m_statementsToPrefix |-> m_statementsToPrefix, frames |-> frames,
     failed |-> FALSE, ret |-> <<>>, stack |-> hist.stack,
     dispensed |-> hist.dispensed, runs |-> hist.runs, callLog |-> hist.callLog,
     inlineLog |-> hist.inlineLog, blockLog |-> hist.blockLog, badGet |-> hist.badGet]

HistOf(s) ==
    [stack |-> s.stack, dispensed |-> s.dispensed, runs |-> s.runs, callLog |-> s.callLog,
     inlineLog |-> s.inlineLog, blockLog |-> s.blockLog, badGet |-> s.badGet]

\* the indices of the module's function definitions: what the constructor puts in m_functionsToVisit
FunctionIndices(ast) == {k \in 1..Len(ast.statements) : ast.statements[k].type = "FunctionDefinition"}

\* m_functions as the constructor fills it: a later definition of a name replaces an earlier one
FunctionsOf(ast) ==
    [name \in {ast.statements[k].name : k \in FunctionIndices(ast)} |->
        CHOOSE k \in FunctionIndices(ast) :
            /\ ast.statements[k].name = name
            /\ \A j \in FunctionIndices(ast) : ast.statements[j].name = name => j <= k]

EmptyHist(ast) ==
    [stack |-> <<>>, dispensed |-> <<>>, runs |-> [k \in FunctionIndices(ast) |-> 0], callLog |-> <<>>,
     inlineLog |-> <<>>, blockLog |-> <<>>, badGet |-> <<>>]

\* *m_functionsToVisit.begin(): the set orders the pointers, which point into one vector
Begin(toVisit) == CHOOSE k \in toVisit : \A j \in toVisit : k <= j

\* the pass state s becomes the state of the model; an exception unwinds the stack and leaves run()
Commit(s) ==
    /\ m_ast' = s.ast
    /\ m_functionsToVisit' = s.m_functionsToVisit
    /\ m_usedNames' = s.m_usedNames
    /\ m_currentFunction' = s.m_currentFunction
    /\ m_statementsToPrefix' = s.m_statementsToPrefix
    /\ frames' = IF s.failed THEN <<>> ELSE s.frames
    /\ hist' = HistOf(s)
    /\ pc' = IF s.failed THEN "failed" ELSE "run"
    /\ UNCHANGED <<m_functions, pos, runNo, input, seed>>

\* run(), first loop, a Block: a new InlineModifier with no current function is to visit it
RunBlock ==
    /\ pc = "run"
    /\ frames = <<>>
    /\ pos <= Len(m_ast.statements)
    /\ m_ast.statements[pos].type = "Block"
    /\ frames' = <<VisitFrame(Step("statements", pos))>>
    /\ m_currentFunction' = ""
    /\ m_statementsToPrefix' = <<>>
    /\ pos' = pos + 1
    /\ UNCHANGED <<m_ast, m_functions, m_functionsToVisit, m_usedNames, pc, runNo, input, seed, hist>>

\* run(), first loop, a FunctionDefinition: the assertion holds and nothing is done
RunFunctionDefinition ==
    /\ pc = "run"
    /\ frames = <<>>
    /\ pos <= Len(m_ast.statements)
    /\ m_ast.statements[pos].type = "FunctionDefinition"
    /\ pos' = pos + 1
    /\ UNCHANGED <<m_ast, m_functions, m_functionsToVisit, m_usedNames, m_currentFunction,
                   m_statementsToPrefix, frames, pc, runNo, input, seed, hist>>

\* run(), one turn of the while loop: the call of handleFunction
RunHandleFunction ==
    /\ pc = "run"
    /\ frames = <<>>
    /\ pos > Len(m_ast.statements)
    /\ m_functionsToVisit # {}
    /\ frames' = <<[at |-> "handleFunction", k |-> Begin(m_functionsToVisit)]>>
    /\ UNCHANGED <<m_ast, m_functions, m_functionsToVisit, m_usedNames, m_currentFunction,
                   m_statementsToPrefix, pc, pos, runNo, input, seed, hist>>

\* run() returns
RunReturn ==
    /\ pc = "run"
    /\ frames = <<>>
    /\ pos > Len(m_ast.statements)
    /\ m_functionsToVisit = {}
    /\ pc' = "done"
    /\ UNCHANGED <<m_ast, m_functions, m_functionsToVisit, m_usedNames, m_currentFunction,
                   m_statementsToPrefix, frames, pos, runNo, input, seed, hist>>

\* the call on top of the stack is at the place named
At(place) == pc = "run" /\ frames # <<>> /\ frames[Len(frames)].at = place

\* the frame on top of the stack
Frame == frames[Len(frames)]

\* the call on top of the stack goes on as Op says
Run(Op(_, _)) == \E s \in {Op(t, fr) : t \in {PassState}, fr \in {Frame}} : Commit(s)

\* visit() of the node the frame names
VisitAt(s, fr) == Visit(s, fr.p, Get(s.ast, fr.p))

\* visit(): the dispatch on the node
VisitNode == At("visit") /\ Run(VisitAt)

\* operator()(Block&), the head of the loop
BlockHead == At("Block") /\ Run(OpBlock)

\* operator()(Block&), after the visit of a statement
BlockVisited == At("Visited") /\ Run(Visited)

\* visitArguments, the head of the loop
ArgumentsHead == At("visitArguments") /\ Run(VisitArguments)

\* visitArguments, after visitRecursively
ArgumentVisited == At("ArgVisited") /\ Run(ArgVisited)

\* visit(Expression&), after handleFunction
CallHandled == At("Handled") /\ Run(Handled)

\* visit(Expression&), after visitArguments
CallArgumentsVisited == At("ArgumentsVisited") /\ Run(ArgumentsVisited)

\* handleFunction is entered
FunctionHandled == At("handleFunction") /\ Run(HandleFunction)

\* handleFunction returns from the visit of the body
FunctionReturned == At("Returned") /\ Run(Returned)

\* a new FullInliner is made for the module the first one left, and run
Rerun ==
    /\ pc = "done"
    /\ runNo = 1
    /\ m_usedNames' = NameCollector(m_ast)
    /\ m_functions' = FunctionsOf(m_ast)
    /\ m_functionsToVisit' = FunctionIndices(m_ast)
    /\ pc' = "run"
    /\ pos' = 1
    /\ runNo' = 2
    /\ input' = Append(input, m_ast)
    /\ seed' = NameCollector(m_ast)
    /\ hist' = EmptyHist(m_ast)
    /\ UNCHANGED <<m_ast, m_currentFunction, m_statementsToPrefix, frames>>

\* FullInliner::FullInliner(_ast) on a module of the family
Init ==
    \E m \in Modules :
        /\ m_ast = m
        /\ m_usedNames = NameCollector(m)
        /\ m_functions = FunctionsOf(m)
        /\ m_functionsToVisit = FunctionIndices(m)
        /\ m_currentFunction = ""
        /\ m_statementsToPrefix = <<>>
        /\ frames = <<>>
        /\ pc = "run"
        /\ pos = 1
        /\ runNo = 1
        /\ input = <<m>>
        /\ seed = NameCollector(m)
        /\ hist = EmptyHist(m)

Next ==
    \/ RunBlock \/ RunFunctionDefinition \/ RunHandleFunction \/ RunReturn \/ Rerun
    \/ VisitNode \/ BlockHead \/ BlockVisited \/ ArgumentsHead \/ ArgumentVisited
    \/ CallHandled \/ CallArgumentsVisited \/ FunctionHandled \/ FunctionReturned

Spec == Init /\ [][Next]_vars

----------------------------------------------------------------------------
(* What the properties below speak of: the nodes of a tree, the calls in   *)
(* it, its scoping, and the latest events of the pass.                     *)

RECURSIVE Resolved(_, _), Reaches(_, _, _, _)

\* the path leads through the condition of a ForLoop
InCondition(p) == \E i \in 1..Len(p) : p[i][1] = "condition"

\* the paths of the calls of the function called name in the tree under node
CallsOf(node, name) ==
    {p \in Paths(node) : Get(node, p).type = "FunctionCall" /\ Get(node, p).functionName.name = name}

\* the names of the functions called somewhere in the tree under node
Callees(node) ==
    {Get(node, p).functionName.name : p \in {q \in Paths(node) : Get(node, q).type = "FunctionCall"}}

\* the definition of the function called name in the module ast
Definition(ast, name) == ast.statements[FunctionsOf(ast)[name]]

\* a chain of at least one call leads from the body of the function from to the function
\* called to, through at most n functions
Reaches(ast, from, to, n) ==
    /\ n > 0
    /\ from \in DOMAIN FunctionsOf(ast)
    /\ \/ to \in Callees(Definition(ast, from))
       \/ \E via \in Callees(Definition(ast, from)) : Reaches(ast, via, to, n - 1)

\* the call graph of the module has a cycle through the function called name
OnCycle(ast, name) == Reaches(ast, name, name, Cardinality(DOMAIN FunctionsOf(ast)))

\* the call graph of the module has no cycle
Acyclic(ast) == \A name \in DOMAIN FunctionsOf(ast) : ~OnCycle(ast, name)

\* the names a statement declares in the block it stands in
DeclaredBy(st) ==
    IF st.type = "VariableDeclaration" THEN {st.variables[k].name : k \in 1..Len(st.variables)} ELSE {}

\* the names the statements before index i declare
DeclaredBefore(statements, i) == UNION {DeclaredBy(statements[j]) : j \in 1..(i - 1)}

\* every variable the node refers to is among visible or declared earlier in a block
\* around the reference inside the node; a function body sees its parameters and
\* return variables only, the condition, post and body of a loop see what pre declares
Resolved(node, visible) ==
    CASE node.type = "Identifier" -> node.name \in visible
      [] node.type \in {"FunctionCall", "FunctionalInstruction"} ->
            \A i \in 1..Len(node.arguments) : Resolved(node.arguments[i], visible)
      [] node.type = "VariableDeclaration" ->
            \A i \in 1..Len(node.value) : Resolved(node.value[i], visible)
      [] node.type = "Assignment" -> node.variableName.name \in visible /\ Resolved(node.value, visible)
      [] node.type = "Block" ->
            \A i \in 1..Len(node.statements) :
                Resolved(node.statements[i], visible \cup DeclaredBefore(node.statements, i))
      [] node.type = "ForLoop" ->
            /\ Resolved(node.pre, visible)
            /\ Resolved(node.condition, visible \cup DeclaredBefore(node.pre.statements, Len(node.pre.statements) + 1))
            /\ Resolved(node.post, visible \cup DeclaredBefore(node.pre.statements, Len(node.pre.statements) + 1))
            /\ Resolved(node.body, visible \cup DeclaredBefore(node.pre.statements, Len(node.pre.statements) + 1))
      [] node.type = "FunctionDefinition" ->
            Resolved(node.body, {node.parameters[k].name : k \in 1..Len(node.parameters)}
                                \cup {node.returnVariables[k].name : k \in 1..Len(node.returnVariables)})
      [] OTHER -> TRUE

\* every reference of the module resolves
WellScoped(ast) == Resolved(ast, {})

\* the module the run at hand was started on
Input == input[runNo]

\* the run at hand has seen an event of the kind
Seen(log) == log # <<>>

\* the names the run at hand has dispensed
Fresh == {hist.dispensed[i] : i \in 1..Len(hist.dispensed)}

\* the definition the name stands for in the run at hand
Signature(name) == m_ast.statements[m_functions[name]]

\* the tree under node holds a call that a modifier working for caller would inline
Inlinable(node, caller) ==
    \E q \in Paths(node) :
        /\ Get(node, q).type = "FunctionCall"
        /\ DoInline(Get(node, q).functionName.name, caller, Signature(Get(node, q).functionName.name))

\* the statement declares the one variable called name with the value given
Temporary(st, name, value) ==
    /\ st.type = "VariableDeclaration"
    /\ Len(st.variables) = 1
    /\ st.variables[1].name = name
    /\ st.value = <<value>>

\* the statement declares the one variable called name without a value
Uninitialized(st, name) ==
    /\ st.type = "VariableDeclaration"
    /\ Len(st.variables) = 1
    /\ st.variables[1].name = name
    /\ st.value = <<>>

\* the sequence part stands in the sequence whole, in one piece
Occurs(part, whole) ==
    \E o \in 0..(Len(whole) - Len(part)) : SubSeq(whole, o + 1, o + Len(part)) = part

\* operator()(Block&) has just visited a statement and spliced the buffer in
JustVisited == At("Block") /\ Frame.visits # <<>>

\* the visit of the statement just visited: where it stood, the buffer its visit left
\* and the statement after the visit
LastVisit == Frame.visits[Len(Frame.visits)]

\* the path led into the statement just visited, by values and arguments only
InStatement(path) ==
    /\ Len(path) > Len(Frame.p)
    /\ SubSeq(path, 1, Len(Frame.p) + 1) = Frame.p \o Step("statements", LastVisit.i)
    /\ \A j \in (Len(Frame.p) + 2)..Len(path) : path[j][1] \in {"value", "arguments"}

\* where the node the path led to stands after the splice
MovedTo(path) ==
    Frame.p \o Step("statements", LastVisit.i + Len(LastVisit.prefix))
            \o SubSeq(path, Len(Frame.p) + 2, Len(path))

\* the buffer of the statement just visited stands in the block right before the statement
Spliced ==
    /\ SubSeq(Get(m_ast, Frame.p).statements, LastVisit.i, LastVisit.i + Len(LastVisit.prefix) - 1)
           = LastVisit.prefix
    /\ Get(m_ast, Frame.p).statements[LastVisit.i + Len(LastVisit.prefix)] = LastVisit.statement

----------------------------------------------------------------------------
(* FullInliner::run and handleFunction *)

\* no function has had more than one InlineModifier run over its body, and when run()
\* has returned the pending set is empty and every function has had exactly one
EachFunctionOnce ==
    /\ \A k \in DOMAIN hist.runs : hist.runs[k] <= 1
    /\ pc = "done" =>
          /\ m_functionsToVisit = {}
          /\ DOMAIN hist.runs = FunctionIndices(Input)
          /\ \A k \in DOMAIN hist.runs : hist.runs[k] = 1

\* handleFunction, called on a function that is not pending, only returns
NotPendingUntouched ==
    (At("handleFunction") /\ Frame.k \notin m_functionsToVisit)
        => /\ frames' = SubSeq(frames, 1, Len(frames) - 1)
           /\ UNCHANGED <<m_ast, m_functions, m_functionsToVisit, m_usedNames, m_currentFunction,
                          m_statementsToPrefix, hist>>

\* run() is not stuck: while it has neither returned nor been left by an exception, it
\* has a step to take
Progresses == pc = "run" => ENABLED Next

\* C1: run() terminates: while it runs it has a next step and it takes finitely many
\* steps, so it returns or an exception leaves it; every top-level function definition
\* has an InlineModifier run over its body at most once, and exactly once by the time
\* run() returns, which it does not do while the pending set is non-empty;
\* handleFunction on a function that is not pending returns without touching anything.
RunTerminates ==
    /\ []EachFunctionOnce
    /\ [][NotPendingUntouched]_vars
    /\ []Progresses
    /\ <>[][FALSE]_vars

\* run() has returned for a module with f on a cycle of calls, in which handleFunction
\* was called on a function that was not pending
RunTerminatesWitness ==
    /\ pc = "done"
    /\ OnCycle(Input, "f")
    /\ Seen(hist.callLog)
    /\ ~hist.callLog[1].handle.pending
    /\ \A k \in DOMAIN hist.runs : hist.runs[k] = 1

----------------------------------------------------------------------------
(* The names dispensed *)

\* the names dispensed in the step
Dispensed == SubSeq(hist'.dispensed, Len(hist.dispensed) + 1, Len(hist'.dispensed))

\* a step of one run dispenses names that are not empty, were not used before the step
\* and differ from each other, and adds them and nothing else to the used names
DispensesFresh ==
    runNo' = runNo =>
        /\ Len(hist'.dispensed) >= Len(hist.dispensed)
        /\ SubSeq(hist'.dispensed, 1, Len(hist.dispensed)) = hist.dispensed
        /\ m_usedNames \subseteq m_usedNames'
        /\ m_usedNames' = m_usedNames \cup {Dispensed[i] : i \in 1..Len(Dispensed)}
        /\ \A i \in 1..Len(Dispensed) :
              /\ Dispensed[i] # ""
              /\ Dispensed[i] \notin m_usedNames
              /\ \A j \in 1..(i - 1) : Dispensed[j] # Dispensed[i]

\* C6: every name NameDispenser::newName returns during a run is non-empty, was not in
\* the used-name set when it was asked for (so it differs from the seed names and from
\* the names returned earlier) and is in the set afterwards; the set only grows.
NameFreshness == [][DispensesFresh]_vars

\* a run has dispensed a name for a hint that was taken and a name for the empty hint
NameFreshnessWitness ==
    /\ \E i \in 1..Len(hist.dispensed) : hist.dispensed[i] = "g_x_1"
    /\ \E i \in 1..Len(hist.dispensed) : hist.dispensed[i] = "_1"
    /\ seed \cap {hist.dispensed[i] : i \in 1..Len(hist.dispensed)} = {}

----------------------------------------------------------------------------
(* visitArguments: the order of the statements hoisted *)

\* the call visited last
Call == hist.callLog[1]

\* the call visited last has three arguments of which the second alone holds a call
\* that is inlined
OnlyMiddle ==
    /\ Seen(hist.callLog)
    /\ Len(Call.before.arguments) = 3
    /\ ~Inlinable(Call.before.arguments[1], Call.caller)
    /\ Inlinable(Call.before.arguments[2], Call.caller)
    /\ ~Inlinable(Call.before.arguments[3], Call.caller)

\* the statements hoisted for b, between the temporary of c and that of a
Middle == SubSeq(Call.hoisted, 2, IF Call.doInline THEN Len(Call.hoisted) - 1 ELSE Len(Call.hoisted))

\* the hoisted statements of f(a, b, c): first c bound to a fresh temporary, then the
\* code hoisted for b, which is bound to no temporary of its own (when b is an inlined
\* call it becomes the result variable the code ends with), then, when f is inlined, a
\* bound to a fresh temporary; when f is not inlined a stays in the call
RightToLeft ==
    OnlyMiddle =>
        /\ Len(Call.hoisted) >= (IF Call.doInline THEN 3 ELSE 2)
        /\ Call.after.arguments[3].type = "Identifier"
        /\ Call.after.arguments[3].name \in Fresh \ seed
        /\ Temporary(Call.hoisted[1], Call.after.arguments[3].name, Call.before.arguments[3])
        /\ IF Call.doInline
           THEN /\ Call.after.arguments[1].type = "Identifier"
                /\ Call.after.arguments[1].name \in Fresh \ seed
                /\ Call.after.arguments[1].name # Call.after.arguments[3].name
                /\ Temporary(Call.hoisted[Len(Call.hoisted)], Call.after.arguments[1].name,
                             Call.before.arguments[1])
           ELSE Call.after.arguments[1] = Call.before.arguments[1]
        /\ \A j \in 1..Len(Call.hoisted) :
              Call.hoisted[j].type = "VariableDeclaration" => Call.hoisted[j].value # <<Call.before.arguments[2]>>
        /\ Call.before.arguments[2].type = "FunctionCall"
              /\ DoInline(Call.before.arguments[2].functionName.name, Call.caller,
                          Signature(Call.before.arguments[2].functionName.name))
              => /\ Len(Middle) >= 2
                 /\ Call.after.arguments[2].type = "Identifier"
                 /\ Call.after.arguments[2].name \in Fresh \ seed
                 /\ Uninitialized(Middle[Len(Middle) - 1], Call.after.arguments[2].name)
                 /\ Middle[Len(Middle)].type = "Block"

\* the hoisted statements stand in the block before the statement that holds the call
\* or the identifier that replaced it
BeforeTheCall ==
    (JustVisited /\ OnlyMiddle /\ InStatement(Call.path)) =>
        /\ Spliced
        /\ Occurs(Call.hoisted, LastVisit.prefix)
        /\ IF Call.doInline THEN Get(m_ast, MovedTo(Call.path)).type = "Identifier"
           ELSE Get(m_ast, MovedTo(Call.path)) = Call.after

\* C2: for a call f(a, b, c) where only b contains a nested inlinable call, the hoisted
\* statements evaluate c first (bound to a fresh temporary), then b's hoisted code, then
\* a (bound to a fresh temporary when f is inlined, left in the call when it is not),
\* and all of them stand before the statement with the call or its replacement.
ArgumentOrderPreserved == RightToLeft /\ BeforeTheCall

\* C2 as stated: a is evaluated first and c last, each of a, b, c bound to a temporary
ArgumentsLeftToRight ==
    OnlyMiddle =>
        /\ \A i \in 1..3 : Call.after.arguments[i].type = "Identifier"
        /\ Temporary(Call.hoisted[1], Call.after.arguments[1].name, Call.before.arguments[1])
        /\ Temporary(Call.hoisted[Len(Call.hoisted)], Call.after.arguments[3].name,
                     Call.before.arguments[3])

\* an inlined call h(a, g(..), c) has been visited and its statement spliced
ArgumentOrderWitness ==
    /\ JustVisited
    /\ OnlyMiddle
    /\ InStatement(Call.path)
    /\ Call.doInline
    /\ Len(LastVisit.prefix) > Len(Call.hoisted)

----------------------------------------------------------------------------
(* The pass run on its own output *)

\* the second run inlines nothing, hoists nothing, asks for no name and leaves the
\* module as the first run left it
SecondRunIdle ==
    /\ m_ast = input[2]
    /\ hist.inlineLog = <<>>
    /\ hist.dispensed = <<>>
    /\ m_statementsToPrefix = <<>>
    /\ pc # "failed"

\* C3: for every module whose call graph has no cycle, a second run of the pass on the
\* output of the first (the used names collected from that output) inlines nothing and
\* hoists nothing: running twice gives what running once gives.
Idempotent == (runNo = 2 /\ Acyclic(input[1])) => SecondRunIdle

\* C3 as stated, for every module
IdempotentForEveryModule == runNo = 2 => SecondRunIdle

\* the second run has returned for a module without a cycle in which the first run
\* inlined a call
IdempotentWitness ==
    /\ runNo = 2
    /\ pc = "done"
    /\ Acyclic(input[1])
    /\ input[2] # input[1]
    /\ Seen(hist.callLog)
----------------------------------------------------------------------------
(* visit(Expression&): which calls are inlined *)

\* the call inlined last
Inlined == hist.inlineLog[1]

\* a call is inlined only if its callee is not the function at work and has one
\* return variable, and the decision taken for a call visited is that test
OnlyEligibleInlined ==
    /\ Seen(hist.inlineLog) => Inlined.callee # Inlined.caller /\ Inlined.returns = 1
    /\ Seen(hist.callLog) =>
          Call.doInline = (Call.callee # Call.caller /\ Len(Signature(Call.callee).returnVariables) = 1)

\* a call that is not inlined stays a call of the same function; its arguments change
\* only if statements were hoisted for them, which needs an argument with a call that
\* is inlined; after the splice the call stands in its statement
CallKept ==
    (Seen(hist.callLog) /\ ~Call.doInline) =>
        /\ Call.after.type = "FunctionCall"
        /\ Call.after.functionName = Call.before.functionName
        /\ Len(Call.after.arguments) = Len(Call.before.arguments)
        /\ Call.hoisted = <<>> => Call.after = Call.before
        /\ Call.after # Call.before =>
              \E i \in 1..Len(Call.before.arguments) : Inlinable(Call.before.arguments[i], Call.caller)
        /\ (JustVisited /\ InStatement(Call.path)) => Get(m_ast, MovedTo(Call.path)) = Call.after

\* when run() has returned, the body of a function holds as many calls of the function
\* itself as before, or more, and the module as many calls of a function that has not
\* one return variable as before, or more
CallsRemain ==
    pc = "done" =>
        \A name \in DOMAIN m_functions :
            /\ Cardinality(CallsOf(Signature(name).body, name))
                  >= Cardinality(CallsOf(Definition(Input, name).body, name))
            /\ Len(Signature(name).returnVariables) # 1 =>
                  Cardinality(CallsOf(m_ast, name)) >= Cardinality(CallsOf(Input, name))

\* C4: a call is replaced by inlined code only if the callee is not the function whose
\* body is processed and has exactly one return variable; a call of F in F's body and a
\* call of a function with 0 or >= 2 return variables are still calls after the pass,
\* their arguments rewritten only when an argument contains a nested call that is inlined.
InliningEligibility == OnlyEligibleInlined /\ CallKept /\ CallsRemain

\* run() has returned for a module in which h calls itself and has not one return
\* variable; the call visited last was kept, with arguments rewritten
InliningEligibilityWitness ==
    /\ pc = "done"
    /\ runNo = 1
    /\ CallsOf(Definition(Input, "h").body, "h") # {}
    /\ Len(Signature("h").returnVariables) # 1
    /\ Seen(hist.callLog)
    /\ ~Call.doInline
    /\ Call.after # Call.before
    /\ Seen(hist.inlineLog)

----------------------------------------------------------------------------
(* operator()(ForLoop&): the condition *)

\* the conditions of the loops of the tree
Conditions(ast) == {Get(ast, q).condition : q \in {p \in Paths(ast) : Get(ast, p).type = "ForLoop"}}

\* no call of the modifier works on a node in the condition of a loop, and no call
\* visited, inlined or failed on stood in one
ConditionNotVisited ==
    /\ \A j \in 1..Len(frames) : "p" \in DOMAIN frames[j] => ~InCondition(frames[j].p)
    /\ Seen(hist.callLog) => ~InCondition(Call.path)
    /\ Seen(hist.inlineLog) => ~InCondition(Inlined.path)
    /\ Seen(hist.badGet) => ~InCondition(hist.badGet[1].path)

\* when run() is over, every condition of a loop of the input is the condition of a
\* loop still
ConditionsKept == pc \in {"done", "failed"} => Conditions(Input) \subseteq Conditions(m_ast)

\* when run() has returned for a module without a cycle of calls, the calls left
\* outside the conditions of loops, those in pre, post and body included, are calls of
\* functions that have not one return variable
EligibleCallsInlined ==
    (pc = "done" /\ runNo = 1 /\ Acyclic(Input)) =>
        \A p \in Paths(m_ast) :
            (Get(m_ast, p).type = "FunctionCall" /\ ~InCondition(p))
                => Len(Signature(Get(m_ast, p).functionName.name).returnVariables) # 1

\* C5: a call in the condition of a ForLoop is never visited: it is not replaced, no
\* handleFunction is called for it and nothing is hoisted for it; the calls in pre, post
\* and body are processed like the calls of any other block.
LoopConditionExcluded == ConditionNotVisited /\ ConditionsKept /\ EligibleCallsInlined

\* a call in the post block of a loop whose condition holds a call has been inlined
LoopConditionExcludedWitness ==
    /\ Seen(hist.inlineLog)
    /\ \E j \in 1..Len(Inlined.path) : Inlined.path[j][1] = "post"
    /\ \E c \in Conditions(m_ast) : Callees(c) # {}

----------------------------------------------------------------------------
(* handleFunction before the clone *)

\* neither the function nor a function its calls lead to is on a cycle of calls
Settled(ast, name) ==
    /\ ~OnCycle(ast, name)
    /\ \A via \in DOMAIN FunctionsOf(ast) :
          Reaches(ast, name, via, Cardinality(DOMAIN FunctionsOf(ast))) => ~OnCycle(ast, via)

\* the copy of the callee's body made for the call inlined last
Clone == Inlined.synthesized[Len(Inlined.synthesized)]

\* the callee was not pending when its body was copied; off every cycle, its
\* handleFunction had run and returned, and with nothing on a cycle behind it the copy
\* holds no call, outside the conditions of loops, that would be inlined
ClonedAfterProcessing ==
    Seen(hist.inlineLog) =>
        /\ ~Inlined.pending
        /\ ~OnCycle(Input, Inlined.callee) => ~Inlined.active /\ Inlined.runs = 1
        /\ Settled(Input, Inlined.callee) =>
              \A p \in Paths(Clone) :
                  (Get(Clone, p).type = "FunctionCall" /\ ~InCondition(p))
                      => Len(Signature(Get(Clone, p).functionName.name).returnVariables) # 1

\* f(x) -> y { y := x }, g(x) -> y { y := f(x) } and g(g(1)) at top level: the top
\* level holds no call when run() has returned
NestedExample ==
    (pc = "done" /\ runNo = 1 /\ Input = Module(1, 2, 1, 1, 2)) =>
        Callees(m_ast.statements[1]) = {}

\* C7: when a callee's body is cloned the callee is not pending; when no cycle of calls
\* runs through the callee, its handleFunction has completed before, so the clone has
\* the callee's own eligible calls inlined (for g(g(1)) with g calling f, the copies of
\* g's body at top level hold no call of f).
CalleeProcessedFirst == ClonedAfterProcessing /\ NestedExample

\* run() has returned for the module of the example, g having been inlined at top level
CalleeProcessedFirstWitness ==
    /\ pc = "done"
    /\ runNo = 1
    /\ Input = Module(1, 2, 1, 1, 2)
    /\ Seen(hist.inlineLog)
    /\ Inlined.callee = "g"
    /\ Inlined.caller = ""

----------------------------------------------------------------------------
(* operator()(Block&) and visit(Expression&): the shape of the rewrite *)

\* the visit of a block that returned last
Visit1 == hist.blockLog[1]

\* the block visited holds, for each statement it had, the buffer the visit of the
\* statement left and then the statement: the statements keep their order, each is
\* visited once, the statements put in are stepped over, and the buffer is empty
BlockShape ==
    Seen(hist.blockLog) =>
        /\ Visit1.buffer = <<>>
        /\ Len(Visit1.visits) = Len(Visit1.before)
        /\ Visit1.i = Len(Visit1.after) + 1
        /\ Visit1.i = IF Visit1.visits = <<>> THEN 1
                      ELSE Visit1.visits[Len(Visit1.visits)].i
                           + Len(Visit1.visits[Len(Visit1.visits)].prefix) + 1
        /\ \A k \in 1..Len(Visit1.visits) :
              /\ Visit1.visits[k].i = IF k = 1 THEN 1
                                      ELSE Visit1.visits[k - 1].i + Len(Visit1.visits[k - 1].prefix) + 1
              /\ SubSeq(Visit1.after, Visit1.visits[k].i,
                        Visit1.visits[k].i + Len(Visit1.visits[k].prefix) - 1) = Visit1.visits[k].prefix
              /\ Visit1.after[Visit1.visits[k].i + Len(Visit1.visits[k].prefix)] = Visit1.visits[k].statement
              /\ Visit1.visits[k].statement.type = Visit1.before[k].type

\* the name, at the node at p of the body, has the name copy in the copy: a name the
\* copier dispensed when the body declares the name at or before the node (decls are
\* the declarations of the body), else the argument for a parameter, the result
\* variable for the return variable, and the name itself otherwise
Renamed(decls, p, name, copy) ==
    IF \E d \in decls : d.name = name /\ Precedes(d.p, p)
    THEN copy \in Inlined.locals
    ELSE copy = translateIdentifier(
                    VariableReplacements(Inlined.fun, Inlined.arguments, Inlined.result), name)

\* the node c of the copy is the node n at p of the body with the names replaced
NodeCloned(decls, p, n, c) ==
    /\ c.type = n.type
    /\ n.type = "Literal" => c = n
    /\ n.type = "Identifier" => Renamed(decls, p, n.name, c.name)
    /\ n.type = "Assignment" => Renamed(decls, p, n.variableName.name, c.variableName.name)
    /\ n.type = "FunctionCall" => Renamed(decls, p, n.functionName.name, c.functionName.name)
    /\ n.type = "FunctionalInstruction" => c.instruction = n.instruction
    /\ n.type = "VariableDeclaration" =>
          /\ Len(c.variables) = Len(n.variables)
          /\ \A k \in 1..Len(n.variables) :
                c.variables[k].type = n.variables[k].type /\ c.variables[k].name \in Inlined.locals

\* the copy is the body, node by node, with the names replaced
CloneOf(body, copy) ==
    \A paths \in {Paths(body)}, decls \in {Declarations(body)} :
        /\ Paths(copy) = paths
        /\ \A p \in paths : \A n \in {Get(body, p)}, c \in {Get(copy, p)} : NodeCloned(decls, p, n, c)

\* the statements made for an inlined call: the declarations that bind its arguments,
\* the declaration of the fresh result variable without a value, the copy of the body;
\* they end the buffer and the call has become the result variable
InlineShape ==
    Seen(hist.inlineLog) =>
        /\ Len(Inlined.synthesized) >= 2
        /\ \A i \in 1..Len(Inlined.arguments) :
              /\ Inlined.arguments[i].type = "Identifier"
              /\ \E j \in 1..(Len(Inlined.synthesized) - 2) :
                    /\ Inlined.synthesized[j].type = "VariableDeclaration"
                    /\ Inlined.synthesized[j].variables[1].name = Inlined.arguments[i].name
        /\ Uninitialized(Inlined.synthesized[Len(Inlined.synthesized) - 1], Inlined.result)
        /\ Inlined.synthesized[Len(Inlined.synthesized) - 1].variables[1].type
              = Inlined.fun.returnVariables[1].type
        /\ Inlined.result \in Fresh \ seed
        /\ Clone.type = "Block"
        /\ CloneOf(Inlined.fun.body, Clone)
        /\ Inlined.after = Identifier(Inlined.result)
        /\ SubSeq(Inlined.buffer, Len(Inlined.buffer) - Len(Inlined.synthesized) + 1, Len(Inlined.buffer))
              = Inlined.synthesized

\* after the visit of a statement the buffer is empty and what it held stands in the
\* block right before the statement; the statements made for a call inlined in the
\* statement are among them and the result variable stands where the call was
SplicedBeforeStatement ==
    JustVisited =>
        /\ m_statementsToPrefix = <<>>
        /\ Spliced
        /\ (Seen(hist.inlineLog) /\ InStatement(Inlined.path)) =>
              /\ Occurs(Inlined.synthesized, LastVisit.prefix)
              /\ Get(m_ast, MovedTo(Inlined.path)) = Identifier(Inlined.result)

\* C8: the statements synthesized for an inlined call (argument temporaries, the
\* uninitialized declaration of a fresh result variable, the copy of the callee body with
\* parameters replaced by the argument identifiers and the return variable by the result
\* variable) are inserted into the block of the statement right before it, the call
\* becomes an Identifier of the result variable, the statements of the block keep their
\* order, the inserted ones are not visited, and the buffer is empty when the visit of
\* the block ends.
RewriteShape == BlockShape /\ InlineShape /\ SplicedBeforeStatement

\* a call with an argument bound to a temporary, into a body with variables of its
\* own, has been inlined and spliced, and a block visit has returned
RewriteShapeWitness ==
    /\ JustVisited
    /\ Seen(hist.inlineLog)
    /\ InStatement(Inlined.path)
    /\ Len(Inlined.synthesized) >= 3
    /\ Inlined.locals # {}
    /\ Seen(hist.blockLog)
    /\ \E k \in 1..Len(Visit1.visits) : Visit1.visits[k].prefix # <<>>

----------------------------------------------------------------------------
(* visit(Expression&): the arguments of a call to be inlined *)

\* C9: when a call is going to be inlined, every argument is an Identifier after
\* visitArguments has returned, so the replacements are built without a failure.
BareIdentifierArguments ==
    /\ (Seen(hist.callLog) /\ Call.doInline) =>
          \A i \in 1..Len(Call.after.arguments) : Call.after.arguments[i].type = "Identifier"
    /\ hist.badGet = <<>>

----------------------------------------------------------------------------
(* The scopes of the output *)

\* C10: when every reference of the input resolves, every reference of the module run()
\* leaves resolves.
ScopePreserved == (pc = "done" /\ WellScoped(Input)) => WellScoped(m_ast)
====
